---- MODULE Spec2Model ----
(***************************************************************************)
(* Model of celery_tools: CacheLock, CacheSemaphore, CacheBoundedSemaphore *)
(* (concurrency.py) over the Django cache, and the LoggedSingleTask        *)
(* life cycle (base_tasks.py).                                             *)
(*                                                                         *)
(* The cache is a function from the keys that are present to integers.     *)
(* Python's True/False/None and a raised ValueError are the strings        *)
(* "True", "False", "None", "ValueError"; an integer result is ret = "int" *)
(* with the number in num.                                                 *)
(***************************************************************************)
EXTENDS Integers, FiniteSets, Sequences, TLC

VARIABLES
    cache,          \* django.core.cache.cache: present key -> integer
    backend,        \* the configured cache backend ("locmem" | "memcached")
    max_value,      \* CacheBoundedSemaphore._max_value of the handles in use
    \* ---- one call at a time (SpecSeq) ----
    op,             \* name of the call that has just returned
    arg,            \* its units / value argument (0 when it has none)
    ret,            \* what it returned or raised
    num,            \* the integer it returned when ret = "int"
    pre,            \* the cache when the call started
    acqRun,         \* history: CacheLock.acquire() calls since the lock was last released
    cycles,         \* history: CacheLock.release() calls so far
    base,           \* history: value written by the last CacheSemaphore initialisation
    net,            \* history: units acquired minus units released since then
    \* ---- concurrent callers (Spec, SpecSem, SpecBSem) ----
    pc,             \* position of each instance / caller
    seen,           \* value each one read at its last cache.get
    units,          \* the value argument of the call each one is in
    outcome,        \* per task instance: "none" | "acquired" | "skipped"
    result,         \* per task instance: what __call__ returned or raised
    ran,            \* per task instance: the wrapped work was executed
    grants,         \* history: acquire() calls that returned True since the last release
    releases,       \* history, per task instance: lock.release() calls it has made
    checked,        \* history, per task instance: what the admission guard saw for it
    lastGuard,      \* history: the last admission check of an instance of another job type
    \* ---- expiry and handles (SpecCrash, SpecDel) ----
    expiry,         \* the keys stored with a timeout that has not elapsed yet
    alive,          \* per handle: the object has not been destroyed
    holds           \* history, per handle: what its own acquire calls obtained

vars == <<cache, backend, max_value, op, arg, ret, num, pre, acqRun, cycles, base, net,
          pc, seen, units, outcome, result, ran, grants,
          releases, checked, lastGuard, expiry, alive, holds>>

seqVars  == <<op, arg, ret, num, pre, acqRun, cycles, base, net>>
procVars == <<pc, seen, units, outcome, result, ran, grants>>
auxVars  == <<releases, checked, lastGuard, expiry, alive, holds>>

\* ------------------------------------------------------------------ bounds
MaxInit     == 2    \* largest initial value a semaphore is constructed with
MaxUnits    == 3    \* largest units argument of acquire / release
MaxCounter  == 4    \* release is not called once it would lift the counter above this
MaxAcquires == 3    \* CacheLock.acquire() calls explored between two releases
MaxCycles   == 2    \* CacheLock.release() calls explored
NumInst     == 3    \* task instances dispatched
NumCallers  == 2    \* concurrent callers of one semaphore

LockKey == "lock_tag"     \* 'lock_{}'.format(self.TAG.lower())
SemKey  == "sem"
BSemKey == "bsem"
Backends == {"locmem", "memcached"}

Max(a, b) == IF a >= b THEN a ELSE b

\* ------------------------------------------------------------------ the cache
Res(c, r, n) == [cache |-> c, ret |-> r, num |-> n]

\* cache.get(key, default)
cache_get(c, k, default) == IF k \in DOMAIN c THEN c[k] ELSE default

\* cache.set(key, value, None)
cache_set(c, k, v) == [x \in DOMAIN c \cup {k} |-> IF x = k THEN v ELSE c[x]]

\* cache.add(key, value, timeout): stores only when the key is absent
cache_add(c, k, v) == IF k \in DOMAIN c THEN c ELSE cache_set(c, k, v)

\* cache.delete(key)
cache_delete(c, k) == [x \in DOMAIN c \ {k} |-> c[x]]

\* cache.incr(key, delta): ValueError on a missing key; memcached never stores
\* a negative counter (a decrement stops at 0), the other backends add delta.
cache_incr(c, k, delta, b) ==
    IF k \notin DOMAIN c THEN Res(c, "ValueError", 0)
    ELSE LET new == IF b = "memcached" /\ delta < 0
                    THEN Max(0, c[k] + delta)
                    ELSE c[k] + delta
         IN  Res(cache_set(c, k, new), "int", new)

\* cache.decr(key, delta)
cache_decr(c, k, delta, b) == cache_incr(c, k, -delta, b)

\* Python truth value of an integer (False == 0)
Truthy(v) == v # 0

\* ------------------------------------------------------------------ CacheLock
CacheLock_locked(c) == cache_get(c, LockKey, 0) = 1

CacheLock_acquire_NoCheck(c) == Res(cache_set(c, LockKey, 1), "True", 0)
CacheLock_acquire(c) ==
    IF ~CacheLock_locked(c)
    THEN Res(cache_add(c, LockKey, 1), "True", 0)
    ELSE Res(c, "False", 0)

CacheLock_release_IfHeld(c) ==
    IF CacheLock_locked(c)
    THEN Res(cache_delete(c, LockKey), "None", 0)
    ELSE Res(c, "ValueError", 0)
CacheLock_release(c) == Res(cache_delete(c, LockKey), "None", 0)

\* ------------------------------------------------------------------ CacheSemaphore
CacheSemaphore_init(c, k, value) ==
    IF ~Truthy(cache_get(c, k, 0))
    THEN Res(cache_set(c, k, value), "None", 0)
    ELSE Res(c, "None", 0)

CacheSemaphore_value(c, k) == cache_get(c, k, 0)

CacheSemaphore_locked(c, k) == CacheSemaphore_value(c, k) < 1

\* the test of acquire(): `current_value < 1 or current_value < value`
acquire_refused(current_value, value) == current_value < 1 \/ current_value < value

CacheSemaphore_acquire_NoUnitsCheck(c, k, value, b) ==
    LET current_value == CacheSemaphore_value(c, k)
    IN  IF current_value < 1
        THEN Res(c, "ValueError", 0)
        ELSE LET r == cache_decr(c, k, value, b)
             IN  IF r.ret = "ValueError" THEN r ELSE Res(r.cache, "True", 0)
CacheSemaphore_acquire(c, k, value, b) ==
    LET current_value == CacheSemaphore_value(c, k)
    IN  IF acquire_refused(current_value, value)
        THEN Res(c, "ValueError", 0)
        ELSE LET r == cache_decr(c, k, value, b)
             IN  IF r.ret = "ValueError" THEN r ELSE Res(r.cache, "True", 0)

CacheSemaphore_acquire_all(c, k, b) ==
    LET value == CacheSemaphore_value(c, k)
        r     == CacheSemaphore_acquire(c, k, value, b)
    IN  IF r.ret = "ValueError" THEN r ELSE Res(r.cache, "int", value)

CacheSemaphore_release_One(c, k, value, b) ==
    LET r == cache_incr(c, k, 1, b)
    IN  IF r.ret = "ValueError" THEN r ELSE Res(r.cache, "None", 0)
CacheSemaphore_release(c, k, value, b) ==
    LET r == cache_incr(c, k, value, b)
    IN  IF r.ret = "ValueError" THEN r ELSE Res(r.cache, "None", 0)

CacheSemaphore_delete(c, k) == Res(cache_delete(c, k), "None", 0)

\* ------------------------------------------------------------------ one call at a time
\* A call that has returned: its effect on the cache and what the caller saw.
Returned(name, a, r) ==
    /\ cache' = r.cache
    /\ op' = name
    /\ arg' = a
    /\ ret' = r.ret
    /\ num' = r.num
    /\ pre' = cache
    /\ UNCHANGED <<backend, max_value, auxVars, procVars>>

SeqLockAcquire ==
    /\ acqRun < MaxAcquires
    /\ Returned("CacheLock.acquire", 0, CacheLock_acquire(cache))
    /\ acqRun' = acqRun + 1
    /\ UNCHANGED <<cycles, base, net>>

SeqLockRelease ==
    /\ cycles < MaxCycles
    /\ Returned("CacheLock.release", 0, CacheLock_release(cache))
    /\ acqRun' = 0
    /\ cycles' = cycles + 1
    /\ UNCHANGED <<base, net>>

SeqLockLocked ==
    /\ Returned("CacheLock.locked", 0,
                Res(cache, IF CacheLock_locked(cache) THEN "True" ELSE "False", 0))
    /\ UNCHANGED <<acqRun, cycles, base, net>>

SeqSemInit(value) ==
    LET r == CacheSemaphore_init(cache, SemKey, value)
    IN  /\ Returned("CacheSemaphore.__init__", value, r)
        /\ IF r.cache # cache
           THEN base' = value /\ net' = 0
           ELSE UNCHANGED <<base, net>>
        /\ UNCHANGED <<acqRun, cycles>>

SeqSemAcquire(value) ==
    LET r == CacheSemaphore_acquire(cache, SemKey, value, backend)
    IN  /\ Returned("CacheSemaphore.acquire", value, r)
        /\ net' = IF r.ret = "True" THEN net + value ELSE net
        /\ UNCHANGED <<acqRun, cycles, base>>

SeqSemAcquireAll ==
    LET r == CacheSemaphore_acquire_all(cache, SemKey, backend)
    IN  /\ Returned("CacheSemaphore.acquire_all", 0, r)
        /\ net' = IF r.ret = "int" THEN net + r.num ELSE net
        /\ UNCHANGED <<acqRun, cycles, base>>

SeqSemRelease(value) ==
    LET r == CacheSemaphore_release(cache, SemKey, value, backend)
    IN  /\ CacheSemaphore_value(cache, SemKey) + value <= MaxCounter
        /\ Returned("CacheSemaphore.release", value, r)
        /\ net' = IF r.ret = "None" THEN net - value ELSE net
        /\ UNCHANGED <<acqRun, cycles, base>>

SeqSemValue ==
    /\ Returned("CacheSemaphore.value", 0,
                Res(cache, "int", CacheSemaphore_value(cache, SemKey)))
    /\ UNCHANGED <<acqRun, cycles, base, net>>

SeqSemLocked ==
    /\ Returned("CacheSemaphore.locked", 0,
                Res(cache, IF CacheSemaphore_locked(cache, SemKey) THEN "True" ELSE "False", 0))
    /\ UNCHANGED <<acqRun, cycles, base, net>>

SeqSemDelete ==
    /\ Returned("CacheSemaphore.delete", 0, CacheSemaphore_delete(cache, SemKey))
    /\ base' = 0
    /\ net' = 0
    /\ UNCHANGED <<acqRun, cycles>>

NoProcs == [i \in {} |-> 0]

\* no instance of another job type has been checked by the admission guard
NoGuard == [single_run |-> FALSE, has_lock |-> FALSE, revoke |-> FALSE]

NoAux ==
    /\ releases = NoProcs /\ checked = NoProcs /\ lastGuard = NoGuard
    /\ expiry = {} /\ alive = NoProcs /\ holds = NoProcs

\* A CacheLock handle (no store write) and CacheSemaphore(SemKey, n) on an empty cache.
InitSeq ==
    /\ backend \in Backends
    /\ max_value = 0
    /\ \E n \in 1..MaxInit :
          /\ cache = CacheSemaphore_init(<<>>, SemKey, n).cache
          /\ pre = <<>>
          /\ base = n
    /\ op = "CacheSemaphore.__init__"
    /\ arg = base
    /\ ret = "None"
    /\ num = 0
    /\ acqRun = 0
    /\ cycles = 0
    /\ net = 0
    /\ pc = NoProcs /\ seen = NoProcs /\ units = NoProcs
    /\ outcome = NoProcs /\ result = NoProcs /\ ran = NoProcs
    /\ grants = 0
    /\ NoAux

NextSeq ==
    \/ SeqLockAcquire
    \/ SeqLockRelease
    \/ SeqLockLocked
    \/ \E value \in 1..MaxInit : SeqSemInit(value)
    \/ \E value \in 0..MaxUnits : SeqSemAcquire(value)
    \/ SeqSemAcquireAll
    \/ \E value \in 1..MaxUnits : SeqSemRelease(value)
    \/ SeqSemValue
    \/ SeqSemLocked
    \/ SeqSemDelete

SpecSeq == InitSeq /\ [][NextSeq]_vars

\* ------------------------------------------------------------------ LoggedSingleTask
\* Each instance runs __call__ and then the hook the worker calls for it:
\* on_success after a normal return (a returned False included), on_failure
\* after an exception.  Every cache operation is a step of its own.
Inst == 1..NumInst

\* what the admission guard saw when it checked an instance: whether it ran,
\* whether the lock was held, and the instances then in the work / terminated
NotChecked == [at |-> "none", running |-> {}, done |-> {}]

NoCall ==
    /\ op = "" /\ arg = 0 /\ ret = "" /\ num = 0 /\ pre = <<>>
    /\ acqRun = 0 /\ cycles = 0 /\ base = 0 /\ net = 0

Init ==
    /\ cache = <<>>
    /\ backend \in Backends
    /\ max_value = 0
    /\ NoCall
    /\ pc = [i \in Inst |-> "created"]
    /\ seen = [i \in Inst |-> 0]
    /\ units = [i \in Inst |-> 0]
    /\ outcome = [i \in Inst |-> "none"]
    /\ result = [i \in Inst |-> "none"]
    /\ ran = [i \in Inst |-> FALSE]
    /\ grants = 0
    /\ releases = [i \in Inst |-> 0]
    /\ checked = [i \in Inst |-> NotChecked]
    /\ lastGuard = NoGuard
    /\ expiry = {}
    /\ alive = NoProcs
    /\ holds = NoProcs

\* prevent_single_task_duplication(sender, body): for the job type's attributes
\* single_run and lock, whether the dispatched instance is revoked, and the cache
\* the check leaves behind.
prevent_single_task_duplication_Always(single_run, has_lock, c) ==
    [revoke |-> single_run /\ has_lock, cache |-> c]
prevent_single_task_duplication_Inverted(single_run, has_lock, c) ==
    [revoke |-> single_run /\ has_lock /\ ~CacheLock_locked(c), cache |-> c]
prevent_single_task_duplication(single_run, has_lock, c) ==
    [revoke |-> single_run /\ has_lock /\ CacheLock_locked(c), cache |-> c]

\* The guard on the dispatch of instance i of the single-instance job
\* (single_run = True, self.lock set by __init__): current_app.control.revoke(id)
\* when the lock is seen held, else the instance goes on to its __call__.
GuardCheck(i) ==
    LET g == prevent_single_task_duplication(TRUE, TRUE, cache)
    IN  /\ pc[i] = "created"
        /\ cache' = g.cache
        /\ pc' = [pc EXCEPT ![i] = IF g.revoke THEN "revoked" ELSE "admitted"]
        /\ UNCHANGED <<backend, max_value, seqVars, seen, units, outcome, result, ran,
                       grants, releases, lastGuard, expiry, alive, holds>>

Guard(i) == GuardCheck(i) /\ UNCHANGED checked

\* The guard on the dispatch of an instance of another job type: one without
\* single_run, without a lock attribute, or not registered at all.
Guard_other(single_run, has_lock) ==
    LET g == prevent_single_task_duplication(single_run, has_lock, cache)
    IN  /\ ~(single_run /\ has_lock)
        /\ cache' = g.cache
        /\ lastGuard' = [single_run |-> single_run, has_lock |-> has_lock,
                         revoke |-> g.revoke]
        /\ UNCHANGED <<backend, max_value, seqVars, procVars, releases, checked,
                       expiry, alive, holds>>

\* __call__: self.lock.acquire() reads self.locked(); when the lock is seen held
\* acquire() returns False and __call__ returns False.
Call_acquire_locked(i) ==
    /\ pc[i] \in {"created", "admitted"}
    /\ IF CacheLock_locked(cache)
       THEN /\ pc' = [pc EXCEPT ![i] = "on_success"]
            /\ outcome' = [outcome EXCEPT ![i] = "skipped"]
            /\ result' = [result EXCEPT ![i] = "False"]
            /\ seen' = [seen EXCEPT ![i] = 1]
       ELSE /\ pc' = [pc EXCEPT ![i] = "acquire_add"]
            /\ seen' = [seen EXCEPT ![i] = 0]
            /\ UNCHANGED <<outcome, result>>
    /\ UNCHANGED <<cache, backend, max_value, auxVars, seqVars, units, ran, grants>>

\* acquire(): cache.add(key, 1, timeout); result = True; the wrapped work starts
Call_acquire_add(i) ==
    /\ pc[i] = "acquire_add"
    /\ cache' = cache_add(cache, LockKey, 1)
    /\ grants' = grants + 1
    /\ outcome' = [outcome EXCEPT ![i] = "acquired"]
    /\ ran' = [ran EXCEPT ![i] = TRUE]
    /\ pc' = [pc EXCEPT ![i] = "run"]
    /\ UNCHANGED <<backend, max_value, auxVars, seqVars, seen, units, result>>

\* super().__call__ returns normally
Call_run_returns(i) ==
    /\ pc[i] = "run"
    /\ pc' = [pc EXCEPT ![i] = "call_release"]
    /\ UNCHANGED <<cache, backend, max_value, auxVars, seqVars, seen, units, outcome, result, ran, grants>>

\* super().__call__ raises: __call__ is left before its release
Call_run_raises(i) ==
    /\ pc[i] = "run"
    /\ result' = [result EXCEPT ![i] = "raised"]
    /\ pc' = [pc EXCEPT ![i] = "on_failure"]
    /\ UNCHANGED <<cache, backend, max_value, auxVars, seqVars, seen, units, outcome, ran, grants>>

\* __call__: self.lock.release(); return result
Call_release(i) ==
    /\ pc[i] = "call_release"
    /\ cache' = CacheLock_release(cache).cache
    /\ grants' = 0
    /\ result' = [result EXCEPT ![i] = "result"]
    /\ pc' = [pc EXCEPT ![i] = "on_success"]
    /\ releases' = [releases EXCEPT ![i] = @ + 1]
    /\ UNCHANGED <<backend, max_value, checked, lastGuard, expiry, alive, holds, seqVars, seen, units, outcome, ran>>

\* on_success: self.lock.release()
On_success(i) ==
    /\ pc[i] = "on_success"
    /\ cache' = CacheLock_release(cache).cache
    /\ grants' = 0
    /\ pc' = [pc EXCEPT ![i] = "done"]
    /\ releases' = [releases EXCEPT ![i] = @ + 1]
    /\ UNCHANGED <<backend, max_value, checked, lastGuard, expiry, alive, holds, seqVars, seen, units, outcome, result, ran>>

\* on_failure: self.lock.release()
On_failure_NoRelease(i) ==
    /\ pc[i] = "on_failure"
    /\ pc' = [pc EXCEPT ![i] = "done"]
    /\ UNCHANGED <<cache, backend, max_value, auxVars, seqVars, seen, units, outcome,
                   result, ran, grants>>
On_failure(i) ==
    /\ pc[i] = "on_failure"
    /\ cache' = CacheLock_release(cache).cache
    /\ grants' = 0
    /\ pc' = [pc EXCEPT ![i] = "done"]
    /\ releases' = [releases EXCEPT ![i] = @ + 1]
    /\ UNCHANGED <<backend, max_value, checked, lastGuard, expiry, alive, holds, seqVars, seen, units, outcome, result, ran>>

Next ==
    \/ \E single_run \in BOOLEAN, has_lock \in BOOLEAN : Guard_other(single_run, has_lock)
    \/ \E i \in Inst :
        \/ Guard(i)
        \/ Call_acquire_locked(i)
        \/ Call_acquire_add(i)
        \/ Call_run_returns(i)
        \/ Call_run_raises(i)
        \/ Call_release(i)
        \/ On_success(i)
        \/ On_failure(i)

Spec == Init /\ [][Next]_vars

\* ------------------------------------------------------------------ claims, task instances

Running == {i \in Inst : pc[i] = "run"}

\* C1: with the lock free at the start, under any interleaving of instances at
\* most one instance is executing the wrapped work.
C1_AtMostOneRunning == Cardinality(Running) <= 1

\* C3: at most one acquire() call returns True before the next release().
C3_OneGrantPerRelease == grants <= 1

\* C10: an instance that found the lock held returns False, never executes the
\* wrapped work, and none of its steps up to the end of its terminal hook
\* changes the lock.
C10_SkippedLeavesLock ==
    [][\A i \in Inst :
          (outcome[i] = "skipped" /\ pc'[i] # pc[i]) =>
              /\ result[i] = "False"
              /\ ~ran'[i]
              /\ cache' = cache]_vars

\* C11: on the success path of an instance that acquired the lock, lock.release()
\* is invoked exactly once between its acquire and the end of its success hook.
C11_ReleasedExactlyOnce ==
    \A i \in Inst :
        (pc[i] = "done" /\ outcome[i] = "acquired" /\ result[i] = "result")
            => releases[i] = 1

\* no instance is between its acquire and the end of its terminal hook
Quiescent == \A j \in Inst : pc[j] \in {"created", "admitted", "revoked", "done"}

\* C12: an instance that acquired the lock has called release() by the time its
\* terminal hook has finished, whether the work returned or raised; with no
\* other instance under way the lock is then free for a later instance.
C12_TerminalReleases ==
    \A i \in Inst :
        (pc[i] = "done" /\ outcome[i] = "acquired") =>
            /\ releases[i] >= 1
            /\ result[i] \in {"result", "raised"}
            /\ Quiescent => ~CacheLock_locked(cache)

\* the work of an instance raised, its on_failure has finished, the lock is free
\* and another instance is still to come
C12_Witness ==
    /\ Quiescent
    /\ ~CacheLock_locked(cache)
    /\ \E i, j \in Inst :
          /\ pc[i] = "done" /\ outcome[i] = "acquired" /\ result[i] = "raised"
          /\ releases[i] = 1
          /\ pc[j] = "created"

\* C13: no release made by an instance frees the lock while a different instance
\* that acquired it is still in the wrapped work.
C13_ReleaseOnlyOwnLock ==
    [][\A i \in Inst :
          (pc'[i] # pc[i] /\ CacheLock_locked(cache) /\ ~CacheLock_locked(cache'))
              => ~(\E j \in Inst \ {i} : outcome[j] = "acquired" /\ pc[j] = "run")]_vars

\* C14: the admission guard revokes the dispatched instance if and only if its
\* job type is single-instance with a registered lock and the lock is held at
\* the check; either way it leaves the cache unchanged.
C14_GuardRevokesIffHeld ==
    [][/\ \A i \in Inst :
             (pc[i] = "created" /\ pc'[i] \in {"revoked", "admitted"}) =>
                 /\ (pc'[i] = "revoked") <=> CacheLock_locked(cache)
                 /\ cache' = cache
       /\ lastGuard' # lastGuard =>
             /\ lastGuard'.revoke <=>
                   (lastGuard'.single_run /\ lastGuard'.has_lock /\ CacheLock_locked(cache))
             /\ cache' = cache]_vars

\* the lock is held, one instance was revoked at its check, and an instance of a
\* job type with single_run but without a lock was checked and not revoked
C14_Witness ==
    /\ CacheLock_locked(cache)
    /\ \E i, j \in Inst : pc[i] = "revoked" /\ pc[j] = "run"
    /\ lastGuard.single_run /\ ~lastGuard.has_lock /\ ~lastGuard.revoke

\* ------------------------------------------------------------------ the end-to-end order
\* The guard is connected, so every instance is checked at its dispatch, and the
\* worker starts the __call__ of an admitted instance only when no other
\* instance is between its acquire and the end of its terminal hook.
E2E_Dispatch(i) ==
    /\ GuardCheck(i)
    /\ checked' = [checked EXCEPT ![i] =
                      [at      |-> IF CacheLock_locked(cache) THEN "held" ELSE "free",
                       running |-> {j \in Inst : pc[j] = "run"},
                       done    |-> {j \in Inst : pc[j] = "done"}]]

E2E_Call(i) ==
    /\ pc[i] = "admitted"
    /\ \A j \in Inst \ {i} : pc[j] \in {"created", "admitted", "revoked", "done"}
    /\ Call_acquire_locked(i)

NextE2E ==
    \E i \in Inst :
        \/ E2E_Dispatch(i)
        \/ E2E_Call(i)
        \/ Call_acquire_add(i)
        \/ Call_run_returns(i)
        \/ Call_run_raises(i)
        \/ Call_release(i)
        \/ On_success(i)
        \/ On_failure(i)

SpecE2E == Init /\ [][NextE2E]_vars

\* C15: an instance dispatched while another one is in the work is revoked and
\* never runs; once an instance has completed and none is under way the lock is
\* free; an instance dispatched with the lock free acquires it and runs its work.
C15_EndToEnd ==
    \A i \in Inst :
        /\ (checked[i].at = "held" \/ checked[i].running # {}) =>
               /\ pc[i] = "revoked"
               /\ ~ran[i]
               /\ outcome[i] = "none"
        /\ (pc[i] = "done" /\ Quiescent) => ~CacheLock_locked(cache)
        /\ (checked[i].at = "free" /\ pc[i] \notin {"admitted", "acquire_add"}) =>
               /\ outcome[i] = "acquired"
               /\ ran[i]
        /\ pc[i] = "run" => CacheLock_locked(cache)

\* A completed successfully, B was revoked while A was in the work, and C, which
\* was dispatched after A had completed, holds the lock and is in the work
C15_Witness ==
    \E A, B, C \in Inst :
        /\ pc[A] = "done" /\ result[A] = "result"
        /\ pc[B] = "revoked" /\ checked[B].running = {A}
        /\ pc[C] = "run" /\ A \in checked[C].done
        /\ CacheLock_locked(cache)

\* ------------------------------------------------------------------ worker crash and key expiry
\* The key of a CacheLock built with a timeout; the task lock of LoggedSingleTask
\* is built without one, and timeout=None stores the key with no expiry.
TtlKey == "lock_ttl"

\* the worker process dies with instance i between its acquire and any release:
\* neither the rest of __call__ nor a terminal hook runs for it
Crash(i) ==
    /\ pc[i] \in {"run", "call_release"}
    /\ pc' = [pc EXCEPT ![i] = "crashed"]
    /\ UNCHANGED <<cache, backend, max_value, auxVars, seqVars, seen, units, outcome,
                   result, ran, grants>>

\* CacheLock(TtlKey, timeout=t).acquire(): cache.add(key, 1, t) when not locked
Ttl_acquire ==
    /\ ~(cache_get(cache, TtlKey, 0) = 1)
    /\ cache' = cache_add(cache, TtlKey, 1)
    /\ expiry' = expiry \cup {TtlKey}
    /\ UNCHANGED <<backend, max_value, seqVars, procVars, releases, checked, lastGuard,
                   alive, holds>>

\* CacheLock(TtlKey, timeout=t).release()
Ttl_release ==
    /\ TtlKey \in DOMAIN cache
    /\ cache' = cache_delete(cache, TtlKey)
    /\ expiry' = expiry \ {TtlKey}
    /\ UNCHANGED <<backend, max_value, seqVars, procVars, releases, checked, lastGuard,
                   alive, holds>>

\* the timeout of a key that was added with one elapses: the cache drops the key
Expire(k) ==
    /\ k \in expiry
    /\ cache' = cache_delete(cache, k)
    /\ expiry' = expiry \ {k}
    /\ UNCHANGED <<backend, max_value, seqVars, procVars, releases, checked, lastGuard,
                   alive, holds>>

TaskStep(i) ==
    \/ Guard(i)
    \/ Call_acquire_locked(i)
    \/ Call_acquire_add(i)
    \/ Call_run_returns(i)
    \/ Call_run_raises(i)
    \/ Call_release(i)
    \/ On_success(i)
    \/ On_failure(i)

NextCrash ==
    \/ \E i \in Inst : TaskStep(i)
    \/ \E i \in Inst : Crash(i)
    \/ Ttl_acquire
    \/ Ttl_release
    \/ \E k \in {LockKey, TtlKey} : Expire(k)

\* every instance that can take a step of its own does so, and a pending timeout
\* elapses
SpecCrash ==
    /\ Init
    /\ [][NextCrash]_vars
    /\ WF_vars(\E i \in Inst : TaskStep(i))
    /\ WF_vars(\E k \in {LockKey, TtlKey} : Expire(k))

\* C19: after a worker crash between an instance's acquire and any release the
\* lock eventually becomes free again; a key added with a timeout is pending
\* expiry and a key added without one is not.
C19_CrashRecovery ==
    /\ (\E i \in Inst : pc[i] = "crashed") ~> ~CacheLock_locked(cache)
    /\ [](TtlKey \in DOMAIN cache => TtlKey \in expiry)
    /\ [](LockKey \notin expiry)

\* ------------------------------------------------------------------ concurrent semaphore callers
\* Every cache operation of a call is a step of its own; a caller is "idle"
\* between two calls.  k is the key of the semaphore the handles share.
Callers == 1..NumCallers

\* the counter values explored
CounterInRange(c, k) ==
    cache_get(c, k, 0) >= -MaxCounter /\ cache_get(c, k, 0) <= MaxCounter

NotTask == outcome = NoProcs /\ result = NoProcs /\ ran = NoProcs /\ grants = 0 /\ NoAux

\* acquire(value), entered with the caller at `from`: current_value = self.value(),
\* then the test; a refused acquire raises ValueError and the call is over.
acquire_value(p, k, value, from) ==
    /\ pc[p] = from
    /\ IF acquire_refused(CacheSemaphore_value(cache, k), value)
       THEN /\ pc' = [pc EXCEPT ![p] = "idle"]
            /\ units' = [units EXCEPT ![p] = 0]
            /\ seen' = [seen EXCEPT ![p] = 0]
       ELSE /\ pc' = [pc EXCEPT ![p] = "acquire_decr"]
            /\ units' = [units EXCEPT ![p] = value]
            /\ seen' = [seen EXCEPT ![p] = CacheSemaphore_value(cache, k)]
    /\ UNCHANGED <<cache, backend, max_value, auxVars, seqVars, outcome, result, ran, grants>>

Sem_acquire(p, k, value) == acquire_value(p, k, value, "idle")

\* acquire(): cache.decr(self._cache_key, value)
Sem_acquire_decr(p, k) ==
    /\ pc[p] = "acquire_decr"
    /\ cache' = cache_decr(cache, k, units[p], backend).cache
    /\ CounterInRange(cache', k)
    /\ pc' = [pc EXCEPT ![p] = "idle"]
    /\ units' = [units EXCEPT ![p] = 0]
    /\ seen' = [seen EXCEPT ![p] = 0]
    /\ UNCHANGED <<backend, max_value, auxVars, seqVars, outcome, result, ran, grants>>

\* acquire_all(): value = self.value()
Sem_acquire_all(p, k) ==
    /\ pc[p] = "idle"
    /\ units' = [units EXCEPT ![p] = CacheSemaphore_value(cache, k)]
    /\ pc' = [pc EXCEPT ![p] = "acquire_all_acquire"]
    /\ UNCHANGED <<cache, backend, max_value, auxVars, seqVars, seen, outcome, result, ran, grants>>

\* acquire_all(): self.acquire(value)
Sem_acquire_all_acquire(p, k) == acquire_value(p, k, units[p], "acquire_all_acquire")

\* CacheSemaphore.release(value): cache.incr(self._cache_key, value)
Sem_release(p, k, value) ==
    /\ pc[p] = "idle"
    /\ cache' = CacheSemaphore_release(cache, k, value, backend).cache
    /\ CounterInRange(cache', k)
    /\ UNCHANGED <<backend, max_value, auxVars, seqVars, procVars>>

\* CacheSemaphore.__init__: `if not cache.get(self._cache_key, False)`
Sem_init(p, k, value) ==
    /\ pc[p] = "idle"
    /\ IF ~Truthy(cache_get(cache, k, 0))
       THEN pc' = [pc EXCEPT ![p] = "init_set"] /\ units' = [units EXCEPT ![p] = value]
       ELSE UNCHANGED <<pc, units>>
    /\ UNCHANGED <<cache, backend, max_value, auxVars, seqVars, seen, outcome, result, ran, grants>>

\* CacheSemaphore.__init__: cache.set(self._cache_key, value, None)
Sem_init_set(p, k) ==
    /\ pc[p] = "init_set"
    /\ cache' = cache_set(cache, k, units[p])
    /\ pc' = [pc EXCEPT ![p] = "idle"]
    /\ units' = [units EXCEPT ![p] = 0]
    /\ UNCHANGED <<backend, max_value, auxVars, seqVars, seen, outcome, result, ran, grants>>

\* CacheSemaphore(SemKey, n) constructed on an empty cache; the callers share the key.
InitSem ==
    /\ backend \in Backends
    /\ max_value = 0
    /\ \E n \in 1..MaxInit : cache = CacheSemaphore_init(<<>>, SemKey, n).cache
    /\ NoCall
    /\ pc = [p \in Callers |-> "idle"]
    /\ seen = [p \in Callers |-> 0]
    /\ units = [p \in Callers |-> 0]
    /\ NotTask

NextSem ==
    \E p \in Callers :
        \/ \E value \in 1..MaxUnits : Sem_acquire(p, SemKey, value)
        \/ Sem_acquire_decr(p, SemKey)
        \/ Sem_acquire_all(p, SemKey)
        \/ Sem_acquire_all_acquire(p, SemKey)
        \/ \E value \in 1..MaxUnits : Sem_release(p, SemKey, value)
        \/ \E value \in 1..MaxInit : Sem_init(p, SemKey, value)
        \/ Sem_init_set(p, SemKey)

SpecSem == InitSem /\ [][NextSem]_vars

\* ------------------------------------------------------------------ CacheBoundedSemaphore
\* the clamp of release(): `if value > (self._max_value - current_value)`
release_clamped(current_value, value, max) ==
    IF value > max - current_value THEN max - current_value ELSE value

\* release(value), entered with the caller at `from`: current_value = self.value()
release_value(p, k, value, from) ==
    /\ pc[p] = from
    /\ seen' = [seen EXCEPT ![p] = CacheSemaphore_value(cache, k)]
    /\ units' = [units EXCEPT ![p] =
                    release_clamped(CacheSemaphore_value(cache, k), value, max_value)]
    /\ pc' = [pc EXCEPT ![p] = "release_incr"]
    /\ UNCHANGED <<cache, backend, max_value, auxVars, seqVars, outcome, result, ran, grants>>

BSem_release(p, k, value) == release_value(p, k, value, "idle")

\* release(): cache.incr(self._cache_key, value)
BSem_release_incr(p, k) ==
    /\ pc[p] = "release_incr"
    /\ cache' = cache_incr(cache, k, units[p], backend).cache
    /\ CounterInRange(cache', k)
    /\ pc' = [pc EXCEPT ![p] = "idle"]
    /\ units' = [units EXCEPT ![p] = 0]
    /\ seen' = [seen EXCEPT ![p] = 0]
    /\ UNCHANGED <<backend, max_value, auxVars, seqVars, outcome, result, ran, grants>>

\* release_all(): the argument self._max_value - self.value()
BSem_release_all(p, k) ==
    /\ pc[p] = "idle"
    /\ units' = [units EXCEPT ![p] = max_value - CacheSemaphore_value(cache, k)]
    /\ pc' = [pc EXCEPT ![p] = "release_all_release"]
    /\ UNCHANGED <<cache, backend, max_value, auxVars, seqVars, seen, outcome, result, ran, grants>>

\* release_all(): self.release(...)
BSem_release_all_release(p, k) == release_value(p, k, units[p], "release_all_release")

\* CacheBoundedSemaphore(BSemKey, value=n, max_value=m), n <= m, on an empty cache.
InitBSem ==
    /\ backend \in Backends
    /\ \E m \in 1..MaxInit : \E n \in 1..m :
          /\ max_value = m
          /\ cache = CacheSemaphore_init(<<>>, BSemKey, n).cache
    /\ NoCall
    /\ pc = [p \in Callers |-> "idle"]
    /\ seen = [p \in Callers |-> 0]
    /\ units = [p \in Callers |-> 0]
    /\ NotTask

NextBSem ==
    \E p \in Callers :
        \/ \E value \in 1..MaxUnits : Sem_acquire(p, BSemKey, value)
        \/ Sem_acquire_decr(p, BSemKey)
        \/ Sem_acquire_all(p, BSemKey)
        \/ Sem_acquire_all_acquire(p, BSemKey)
        \/ \E value \in 1..MaxUnits : BSem_release(p, BSemKey, value)
        \/ BSem_release_incr(p, BSemKey)
        \/ BSem_release_all(p, BSemKey)
        \/ BSem_release_all_release(p, BSemKey)

SpecBSem == InitBSem /\ [][NextBSem]_vars

\* ------------------------------------------------------------------ CacheBoundedSemaphore, one call at a time
CacheBoundedSemaphore_full(c, k, max) == cache_get(c, k, max) >= max

CacheBoundedSemaphore_release_NoClamp(c, k, value, max, b) ==
    CacheSemaphore_release(c, k, value, b)
CacheBoundedSemaphore_release(c, k, value, max, b) ==
    LET current_value == CacheSemaphore_value(c, k)
    IN  CacheSemaphore_release(c, k, release_clamped(current_value, value, max), b)

CacheBoundedSemaphore_release_all(c, k, max, b) ==
    CacheBoundedSemaphore_release(c, k, max - CacheSemaphore_value(c, k), max, b)

BSeqAcquire(value) ==
    /\ Returned("CacheBoundedSemaphore.acquire", value,
             CacheSemaphore_acquire(cache, BSemKey, value, backend))
    /\ UNCHANGED <<acqRun, cycles, base, net>>

BSeqAcquireAll ==
    /\ Returned("CacheBoundedSemaphore.acquire_all", 0,
             CacheSemaphore_acquire_all(cache, BSemKey, backend))
    /\ UNCHANGED <<acqRun, cycles, base, net>>

BSeqRelease(value) ==
    /\ Returned("CacheBoundedSemaphore.release", value,
             CacheBoundedSemaphore_release(cache, BSemKey, value, max_value, backend))
    /\ UNCHANGED <<acqRun, cycles, base, net>>

BSeqReleaseAll ==
    /\ Returned("CacheBoundedSemaphore.release_all", 0,
             CacheBoundedSemaphore_release_all(cache, BSemKey, max_value, backend))
    /\ UNCHANGED <<acqRun, cycles, base, net>>

BSeqFull ==
    /\ Returned("CacheBoundedSemaphore.full", 0,
             Res(cache, IF CacheBoundedSemaphore_full(cache, BSemKey, max_value)
                        THEN "True" ELSE "False", 0))
    /\ UNCHANGED <<acqRun, cycles, base, net>>

BSeqValue ==
    /\ Returned("CacheBoundedSemaphore.value", 0,
             Res(cache, "int", CacheSemaphore_value(cache, BSemKey)))
    /\ UNCHANGED <<acqRun, cycles, base, net>>

BSeqLocked ==
    /\ Returned("CacheBoundedSemaphore.locked", 0,
             Res(cache, IF CacheSemaphore_locked(cache, BSemKey) THEN "True" ELSE "False", 0))
    /\ UNCHANGED <<acqRun, cycles, base, net>>

BSeqDelete ==
    /\ Returned("CacheBoundedSemaphore.delete", 0, CacheSemaphore_delete(cache, BSemKey))
    /\ UNCHANGED <<acqRun, cycles, base, net>>

\* CacheBoundedSemaphore(BSemKey, value=n, max_value=m), n <= m, on an empty cache.
InitBSeq ==
    /\ backend \in Backends
    /\ \E m \in 1..MaxInit : \E n \in 0..m :
          /\ max_value = m
          /\ cache = CacheSemaphore_init(<<>>, BSemKey, n).cache
    /\ pre = <<>>
    /\ op = "CacheBoundedSemaphore.__init__"
    /\ arg = 0 /\ ret = "None" /\ num = 0
    /\ acqRun = 0 /\ cycles = 0 /\ base = 0 /\ net = 0
    /\ pc = NoProcs /\ seen = NoProcs /\ units = NoProcs
    /\ NotTask

NextBSeq ==
    \/ \E value \in 1..MaxUnits : BSeqAcquire(value)
    \/ BSeqAcquireAll
    \/ \E value \in 1..MaxUnits : BSeqRelease(value)
    \/ BSeqReleaseAll
    \/ BSeqFull
    \/ BSeqValue
    \/ BSeqLocked
    \/ BSeqDelete

SpecBSeq == InitBSeq /\ [][NextBSeq]_vars

\* C16: in every state of a bounded semaphore, after delete() too, full() is true
\* exactly when value() >= max, locked() is true exactly when value() < 1, and
\* full(), value() and locked() leave the cache as it was.
C16_ObserversAgree ==
    /\ CacheBoundedSemaphore_full(cache, BSemKey, max_value)
          <=> (CacheSemaphore_value(cache, BSemKey) >= max_value)
    /\ CacheSemaphore_locked(cache, BSemKey)
          <=> (CacheSemaphore_value(cache, BSemKey) < 1)
    /\ op \in {"CacheBoundedSemaphore.full", "CacheBoundedSemaphore.value",
               "CacheBoundedSemaphore.locked"} => cache = pre

\* C17: with the counter stored at v, 0 <= v <= max, and one call at a time,
\* release(units) for units >= 1 returns without error and leaves
\* min(max, v + units); release_all() leaves max.
C17_BoundedRelease ==
    LET v == CacheSemaphore_value(pre, BSemKey)
    IN  (BSemKey \in DOMAIN pre /\ 0 <= v /\ v <= max_value) =>
            /\ op = "CacheBoundedSemaphore.release" =>
                  /\ ret = "None"
                  /\ BSemKey \in DOMAIN cache
                  /\ cache[BSemKey] = IF v + arg > max_value THEN max_value ELSE v + arg
            /\ op = "CacheBoundedSemaphore.release_all" =>
                  /\ ret = "None"
                  /\ BSemKey \in DOMAIN cache
                  /\ cache[BSemKey] = max_value

\* release(MaxUnits) on a counter at 0 has left exactly max, fewer than asked for
C17_Witness ==
    /\ op = "CacheBoundedSemaphore.release"
    /\ BSemKey \in DOMAIN pre /\ pre[BSemKey] = 0
    /\ arg = MaxUnits /\ arg > max_value
    /\ ret = "None"
    /\ cache[BSemKey] = max_value

\* ------------------------------------------------------------------ object destruction
\* Several handles of each class on the same key; a handle is destroyed at any
\* time (its last reference goes away) and __del__ runs.
NumHandles == 2
Kinds == {"lock", "sem", "bsem"}
Handles == Kinds \X (1..NumHandles)
KeyOf(h) == CASE h[1] = "lock" -> LockKey
              [] h[1] = "sem"  -> SemKey
              [] h[1] = "bsem" -> BSemKey

\* CacheLock.__del__: return self.release()
CacheLock_del_Keep(c) == Res(c, "None", 0)
CacheLock_del(c) == CacheLock_release(c)

\* CacheSemaphore.__del__: self.delete()
CacheSemaphore_del(c, k) == CacheSemaphore_delete(c, k)

\* CacheBoundedSemaphore.__del__: super().__del__()
CacheBoundedSemaphore_del(c, k) == CacheSemaphore_del(c, k)

HandleFrame == UNCHANGED <<backend, max_value, seqVars, procVars, releases, checked,
                           lastGuard, expiry>>

Handle_lock_acquire(h) ==
    LET r == CacheLock_acquire(cache)
    IN  /\ h[1] = "lock" /\ alive[h] /\ ~holds[h]
        /\ cache' = r.cache
        /\ holds' = [holds EXCEPT ![h] = (r.ret = "True")]
        /\ UNCHANGED alive
        /\ HandleFrame

Handle_lock_release(h) ==
    /\ h[1] = "lock" /\ alive[h] /\ holds[h]
    /\ cache' = CacheLock_release(cache).cache
    /\ holds' = [holds EXCEPT ![h] = FALSE]
    /\ UNCHANGED alive
    /\ HandleFrame

Handle_lock_del(h) ==
    /\ h[1] = "lock" /\ alive[h]
    /\ cache' = CacheLock_del(cache).cache
    /\ alive' = [alive EXCEPT ![h] = FALSE]
    /\ holds' = [holds EXCEPT ![h] = FALSE]
    /\ HandleFrame

Handle_sem_acquire(h) ==
    LET r == CacheSemaphore_acquire(cache, KeyOf(h), 1, backend)
    IN  /\ h[1] \in {"sem", "bsem"} /\ alive[h] /\ ~holds[h]
        /\ cache' = r.cache
        /\ holds' = [holds EXCEPT ![h] = (r.ret = "True")]
        /\ UNCHANGED alive
        /\ HandleFrame

Handle_sem_release(h) ==
    /\ h[1] = "sem" /\ alive[h] /\ holds[h]
    /\ cache' = CacheSemaphore_release(cache, SemKey, 1, backend).cache
    /\ holds' = [holds EXCEPT ![h] = FALSE]
    /\ UNCHANGED alive
    /\ HandleFrame

Handle_bsem_release(h) ==
    /\ h[1] = "bsem" /\ alive[h] /\ holds[h]
    /\ cache' = CacheBoundedSemaphore_release(cache, BSemKey, 1, max_value, backend).cache
    /\ holds' = [holds EXCEPT ![h] = FALSE]
    /\ UNCHANGED alive
    /\ HandleFrame

Handle_sem_del(h) ==
    /\ h[1] = "sem" /\ alive[h]
    /\ cache' = CacheSemaphore_del(cache, SemKey).cache
    /\ alive' = [alive EXCEPT ![h] = FALSE]
    /\ holds' = [holds EXCEPT ![h] = FALSE]
    /\ HandleFrame

Handle_bsem_del(h) ==
    /\ h[1] = "bsem" /\ alive[h]
    /\ cache' = CacheBoundedSemaphore_del(cache, BSemKey).cache
    /\ alive' = [alive EXCEPT ![h] = FALSE]
    /\ holds' = [holds EXCEPT ![h] = FALSE]
    /\ HandleFrame

\* every handle built on an empty cache: CacheLock(LockKey), CacheSemaphore(SemKey, n),
\* CacheBoundedSemaphore(BSemKey, n, n)
InitDel ==
    /\ backend \in Backends
    /\ \E n \in 1..MaxInit :
          /\ max_value = n
          /\ cache = CacheSemaphore_init(CacheSemaphore_init(<<>>, SemKey, n).cache,
                                         BSemKey, n).cache
    /\ NoCall
    /\ pc = NoProcs /\ seen = NoProcs /\ units = NoProcs
    /\ outcome = NoProcs /\ result = NoProcs /\ ran = NoProcs /\ grants = 0
    /\ releases = NoProcs /\ checked = NoProcs /\ lastGuard = NoGuard /\ expiry = {}
    /\ alive = [h \in Handles |-> TRUE]
    /\ holds = [h \in Handles |-> FALSE]

NextDel ==
    \E h \in Handles :
        \/ Handle_lock_acquire(h)
        \/ Handle_lock_release(h)
        \/ Handle_lock_del(h)
        \/ Handle_sem_acquire(h)
        \/ Handle_sem_release(h)
        \/ Handle_bsem_release(h)
        \/ Handle_sem_del(h)
        \/ Handle_bsem_del(h)

SpecDel == InitDel /\ [][NextDel]_vars

\* C20: destroying any handle deletes its key, whether or not the handle holds
\* anything; afterwards the lock reads free and the semaphore value reads 0 for
\* every other handle, even one that still holds it.
C20_DestroyDeletesKey ==
    [][\A h \in Handles :
          (alive[h] /\ ~alive'[h]) =>
              /\ KeyOf(h) \notin DOMAIN cache'
              /\ h[1] = "lock" => ~CacheLock_locked(cache')
              /\ h[1] \in {"sem", "bsem"} => CacheSemaphore_value(cache', KeyOf(h)) = 0]_vars

\* a lock handle that held nothing has been destroyed while another, still
\* alive, holds the lock, and the lock reads free; likewise for each semaphore
C20_Witness ==
    /\ \E g, h \in Handles :
          /\ g[1] = "lock" /\ h[1] = "lock"
          /\ ~alive[h] /\ alive[g] /\ holds[g]
          /\ ~CacheLock_locked(cache)
    /\ \A kind \in {"sem", "bsem"} : \E g, h \in Handles :
          /\ g[1] = kind /\ h[1] = kind
          /\ ~alive[h] /\ alive[g] /\ holds[g]
          /\ CacheSemaphore_value(cache, KeyOf(g)) = 0

\* ------------------------------------------------------------------ claims, concurrent semaphore callers

\* C4: under any interleaving of acquire(units), acquire_all() and release(units)
\* the stored counter is never negative, and no caller that observed
\* counter < units performs the decrement.
C4_CounterNeverNegative ==
    /\ SemKey \in DOMAIN cache => cache[SemKey] >= 0
    /\ \A p \in Callers : pc[p] = "acquire_decr" => seen[p] >= units[p]

\* C5: for a bounded semaphore with capacity max, under any interleaving of
\* acquire, release(units) and release_all() the counter stays within 0..max.
C5_CounterWithinCapacity ==
    BSemKey \in DOMAIN cache => (0 <= cache[BSemKey] /\ cache[BSemKey] <= max_value)

\* ------------------------------------------------------------------ claims, one call at a time

\* C2: for a lock that starts free and is called one call at a time, the first
\* acquire() returns True, every further acquire() before a release() returns
\* False and leaves the lock held, and after a release() the next acquire()
\* returns True again, cycle after cycle.
C2_SequentialAcquire ==
    op = "CacheLock.acquire" =>
        /\ (ret = "True") <=> (acqRun = 1)
        /\ (ret = "False") <=> (acqRun > 1)
        /\ CacheLock_locked(cache)
        /\ (ret = "False" => cache = pre)

\* a refused acquire() in a later cycle: the lock was released, re-acquired and is held
C2_Witness ==
    /\ op = "CacheLock.acquire"
    /\ ret = "False"
    /\ acqRun >= 2
    /\ cycles >= 1

\* C6: constructing a CacheSemaphore on a key whose counter already exists leaves
\* that counter unchanged, for every existing value including 0.
C6_InitLeavesExistingCounter ==
    (op = "CacheSemaphore.__init__" /\ SemKey \in DOMAIN pre) => cache = pre

\* C7: acquire_all() never fails: for every counter value v >= 0 it returns v and
\* leaves the counter at 0.
C7_AcquireAllNeverFails ==
    op = "CacheSemaphore.acquire_all" =>
        /\ ret = "int"
        /\ num = CacheSemaphore_value(pre, SemKey)
        /\ CacheSemaphore_value(cache, SemKey) = 0

\* C8: acquire(units) on a counter v raises ValueError and leaves the counter
\* unchanged when v < 1 or v < units; otherwise it returns True and the counter
\* is exactly v - units.
C8_AcquireUnits ==
    op = "CacheSemaphore.acquire" =>
        LET v == CacheSemaphore_value(pre, SemKey)
        IN  IF v < 1 \/ v < arg
            THEN ret = "ValueError" /\ cache = pre
            ELSE /\ ret = "True"
                 /\ SemKey \in DOMAIN cache
                 /\ cache[SemKey] = v - arg
                 /\ cache_delete(cache, SemKey) = cache_delete(pre, SemKey)

\* acquire(units) refused with some, but not enough, units available: nothing was taken
C8_Witness ==
    /\ op = "CacheSemaphore.acquire"
    /\ ret = "ValueError"
    /\ CacheSemaphore_value(pre, SemKey) >= 1
    /\ arg > CacheSemaphore_value(pre, SemKey)
    /\ cache = pre

\* C9: for a semaphore initialised to n (base) the units acquired and not released
\* (net) never exceed n, the counter is n minus them, so an acquire asking for
\* more than is left raises, and once as many units were released as acquired
\* the value is n again.
C9_Conservation ==
    SemKey \in DOMAIN cache =>
        /\ net <= base
        /\ cache[SemKey] = base - net
        /\ (op = "CacheSemaphore.acquire" /\ ret = "ValueError")
               => (net + arg > base \/ net = base)

\* units were acquired and a release has just given the last of them back
C9_Witness ==
    /\ op = "CacheSemaphore.release"
    /\ ret = "None"
    /\ net = 0
    /\ base = MaxInit
    /\ cache[SemKey] = base

\* C18: release() from any lock state signals no error and leaves the lock free;
\* a second release() changes nothing more.
C18_ReleaseIdempotent ==
    op = "CacheLock.release" =>
        /\ ret = "None"
        /\ ~CacheLock_locked(cache)
        /\ cache = cache_delete(pre, LockKey)
        /\ CacheLock_release(cache) = Res(cache, "None", 0)

\* release() has just returned on a lock that was already free, after an
\* earlier release()
C18_Witness ==
    /\ op = "CacheLock.release"
    /\ ~CacheLock_locked(pre)
    /\ cycles = MaxCycles
    /\ ret = "None"

====
